---- MODULE Spec2Model ----
(***************************************************************************)
(* The ticket routes of the queue-management server                        *)
(* (src/src/routes/announcements.js: POST /tickets, PATCH /tickets/:id,    *)
(* POST /tickets/call-next, DELETE /tickets/:id) over the MariaDB pool of  *)
(* src/src/config/database.js.  Every handler is cut at its awaited        *)
(* database statements; a transaction's writes become visible at COMMIT,   *)
(* and the row locks it took (INSERT .. ON DUPLICATE KEY UPDATE,           *)
(* SELECT .. FOR UPDATE) are held until COMMIT or ROLLBACK.                *)
(* The Socket.IO handlers and ticket emitters of src/src/routes/users.js   *)
(* are modelled by the rooms of each socket and the connectedClients Map.  *)
(***************************************************************************)
EXTENDS Integers, Sequences, FiniteSets, TLC

\* ---------------------------------------------------------------- bounds
MaxReqs == 3          \* requests served in one behaviour
MaxActive == 2        \* requests in flight at the same time
MaxNumber == 1001     \* largest sequence value a ticket number is formatted for
MaxSockets == 2       \* socket connections of one behaviour
MaxEvents == 1        \* ticket events published in one behaviour
MaxObjects == 1       \* join:branch payloads that are not strings

\* ------------------------------------------------------------- constants
connectionLimit == 10 \* pool size
padWidth == 3         \* padStart(3, '0')
NullTime == 0         \* a NULL DATETIME column; real instants are >= 1

NULL == "NULL"
Reqs == 1..MaxActive
TicketIds == 1..(MaxReqs + 1)
ServiceIds == {"s1", "s2"}
BranchIds == {"b1", "b2"}
CounterIds == {"c1", "c2"}
UserId == "u1"
Statuses == {"waiting", "serving", "done", "cancelled", "skipped"}
Terminal == {"done", "cancelled", "skipped"}
Today == "D"
Keys == ServiceIds \X BranchIds \X {Today}

\* rows of the tables the ticket routes only read
ServicePrefix(s) == IF s = "s1" THEN "A" ELSE IF s = "s2" THEN "B" ELSE NULL
CounterBranch(c) == IF c = "c1" THEN "b1" ELSE IF c = "c2" THEN "b2" ELSE NULL

\* ----------------------------------------------------------- pure helpers
Min(a, b) == IF a < b THEN a ELSE b

DigitChars == <<"0", "1", "2", "3", "4", "5", "6", "7", "8", "9">>

RECURSIVE ToDigits(_)
\* String(currentNumber): the decimal digits of a non-negative integer
ToDigits(n) ==
  IF n < 10 THEN <<DigitChars[n + 1]>>
  ELSE Append(ToDigits(n \div 10), DigitChars[(n % 10) + 1])

\* mutant: the number is cut to its last `width` digits (slice(-3))
PadStart_Cap(s, width, fill) ==
  IF Len(s) > width THEN SubSeq(s, Len(s) - width + 1, Len(s))
  ELSE [i \in 1..width |-> IF i <= width - Len(s) THEN fill ELSE s[i - (width - Len(s))]]

RECURSIVE PadStart(_, _, _)
\* String.prototype.padStart(width, fill): pads on the left, never truncates
PadStart(s, width, fill) ==
  IF Len(s) >= width THEN s ELSE PadStart(<<fill>> \o s, width, fill)

\* `${prefix}-${String(currentNumber).padStart(3, '0')}`
TicketNumber(prefix, n) == <<prefix, "-">> \o PadStart(ToDigits(n), padWidth, "0")

DigitValue(c) == CHOOSE d \in 0..9 : DigitChars[d + 1] = c

RECURSIVE DigitsValue(_)
DigitsValue(s) ==
  IF Len(s) = 0 THEN 0
  ELSE 10 * DigitsValue(SubSeq(s, 1, Len(s) - 1)) + DigitValue(s[Len(s)])

\* the sequence value a ticket number was issued for
SeqOf(ticket_number) == DigitsValue(SubSeq(ticket_number, 3, Len(ticket_number)))

\* ------------------------------------------------------------------ state
VARIABLES
  seq,         \* ticket_sequences: committed current_number per key, -1 = no row
  tickets,     \* tickets: committed rows, a function id -> row
  seqLock,     \* holder of the row lock of a ticket_sequences row, 0 = free
  ticketLock,  \* holder of the row lock of a tickets row, 0 = free
  poolFree,    \* free connections of the pool
  clock,       \* the last instant handed out by NOW() / new Date()
  started,     \* requests accepted so far
  kind,        \* per request slot: which handler runs
  pc,          \* per request slot: the awaited statement it is at
  body,        \* per request slot: req.body / req.params
  loc,         \* per request slot: the handler's local variables
  resp,        \* per request slot: the response sent
  emitted,     \* per request slot: the events published
  sockets,     \* per socket: not yet connected, connected, or disconnected
  rooms,       \* per socket: the Socket.IO rooms it is a member of
  connectedClients, \* the Map of users.js: key -> Set of socket ids
  delivered,   \* per socket: the ticket events it has received
  published,   \* ticket events published so far
  objects      \* payload objects received so far (a Map keys them by identity)

dbVars == <<seq, tickets, seqLock, ticketLock, poolFree, clock, started,
            kind, pc, body, loc, resp, emitted>>
sockVars == <<sockets, rooms, connectedClients, delivered, published, objects>>
vars == <<seq, tickets, seqLock, ticketLock, poolFree, clock, started,
          kind, pc, body, loc, resp, emitted,
          sockets, rooms, connectedClients, delivered, published, objects>>

Sockets == 1..MaxSockets

\* no client has connected yet
InitSockets ==
  /\ sockets = [s \in Sockets |-> "new"]
  /\ rooms = [s \in Sockets |-> {}]
  /\ connectedClients = <<>>
  /\ delivered = [s \in Sockets |-> {}]
  /\ published = 0
  /\ objects = 0

NoRow == 0 - 1

NoBody == [id |-> 0, service_id |-> NULL, branch_id |-> NULL, priority_level |-> <<>>,
           counter_id |-> NULL, status |-> NULL, notes |-> NULL]
NoLoc == [prefix |-> NULL, currentNumber |-> 0, ticketNumber |-> <<>>, ticketId |-> 0,
          now |-> NullTime, seqWrite |-> NoRow, branchId |-> NULL]
NoResp == [code |-> 0, ticket |-> <<>>, error |-> NULL]

\* the database at start-up: empty, or one ticket issued earlier in the day
FirstTicket ==
  [id |-> 1, ticket_number |-> TicketNumber("A", 1), service_id |-> "s1",
   branch_id |-> "b1", priority_level |-> 0, status |-> "waiting",
   counter_id |-> NULL, served_by |-> NULL, created_at |-> 1,
   called_at |-> NullTime, started_at |-> NullTime, ended_at |-> NullTime]

Init ==
  /\ \/ /\ seq = [k \in Keys |-> NoRow]
        /\ tickets = <<>>
     \/ /\ seq = [k \in Keys |-> IF k = <<"s1", "b1", Today>> THEN 1 ELSE NoRow]
        /\ tickets = <<FirstTicket>>
  /\ seqLock = [k \in Keys |-> 0]
  /\ ticketLock = [t \in TicketIds |-> 0]
  /\ poolFree = connectionLimit
  /\ clock = 1
  /\ started = 0
  /\ kind = [r \in Reqs |-> "none"]
  /\ pc = [r \in Reqs |-> "idle"]
  /\ body = [r \in Reqs |-> NoBody]
  /\ loc = [r \in Reqs |-> NoLoc]
  /\ resp = [r \in Reqs |-> NoResp]
  /\ emitted = [r \in Reqs |-> <<>>]
  /\ InitSockets

\* ------------------------------------------------------- shared plumbing
\* a response is delivered before the server takes its next step
Answered == \E r \in Reqs : pc[r] = "done"

\* request r runs handler k and is at its statement p
At(r, k, p) == ~Answered /\ kind[r] = k /\ pc[r] = p

\* a slot can take a new request when the previous one has been answered
Accept(r) ==
  /\ ~Answered
  /\ pc[r] = "idle"
  /\ \A q \in Reqs : q < r => pc[q] # "idle"
  /\ started < MaxReqs
  /\ started' = started + 1

\* NOW() / new Date(): time never runs backwards; two rows may be inserted in
\* the same second (created_at has the resolution of the column default)
Instants == {clock, clock + 1}
Later == {clock + 1}

KeyOf(b) == <<b.service_id, b.branch_id, Today>>

\* mutant: the statements take no row lock (plain INSERT / SELECT / UPDATE)
CanLockSeq_NoLock(k, r) == seqLock[k] \in {0} \cup Reqs
CanLockTicket_NoLock(t, r) == ticketLock[t] \in {0} \cup Reqs

\* mutant: the statements lock the whole ticket_sequences table
CanLockSeq_TableLock(k, r) == \A j \in Keys : seqLock[j] \in {0, r}

\* an InnoDB exclusive row lock is granted when the row is free or already ours
CanLockSeq(k, r) == seqLock[k] \in {0, r}
CanLockTicket(t, r) == ticketLock[t] \in {0, r}

\* COMMIT / ROLLBACK give back every row lock of the transaction
ReleaseLocks(r) ==
  /\ seqLock' = [k \in Keys |-> IF seqLock[k] = r THEN 0 ELSE seqLock[k]]
  /\ ticketLock' = [t \in TicketIds |-> IF ticketLock[t] = r THEN 0 ELSE ticketLock[t]]

\* SELECT t.*, ... WHERE t.id = ?: the committed row, with its id
ReadTicket(t) == IF t \in DOMAIN tickets THEN <<[tickets[t] EXCEPT !.id = t]>> ELSE <<>>

Event(name, branch, payload) == [event |-> name, room |-> <<"branch", branch>>, data |-> payload]

\* what a handler leaves behind once it has answered: the status code and the
\* ticket of the response, the events published, the error it logged
Answer(r, code, ticket, events, error) ==
  /\ pc' = [pc EXCEPT ![r] = "done"]
  /\ loc' = [loc EXCEPT ![r] = NoLoc]
  /\ resp' = [resp EXCEPT ![r] = [code |-> code, ticket |-> ticket, error |-> error]]
  /\ emitted' = [emitted EXCEPT ![r] = events]

Finish(r, code, ticket, events) == Answer(r, code, ticket, events, NULL)

\* catch (error) { console.error(.., error); res.status(500) }: the statement
\* the handler was at is the one that threw
Throw(r) == Answer(r, 500, <<>>, <<>>, pc[r])

\* ------------------------------------------------------ POST /api/tickets
CreateBodies ==
  {[service_id |-> "s1", branch_id |-> "b1", priority_level |-> <<>>],
   [service_id |-> "s1", branch_id |-> "b1", priority_level |-> <<2>>],
   [service_id |-> "s2", branch_id |-> "b1", priority_level |-> <<>>],
   [service_id |-> "s1", branch_id |-> "b2", priority_level |-> <<>>],
   [service_id |-> NULL, branch_id |-> "b1", priority_level |-> <<>>],
   [service_id |-> "s1", branch_id |-> NULL, priority_level |-> <<>>]}

\* mutant: only service_id is checked
CreateRequired_ServiceOnly(b) == b.service_id # NULL

\* if (!service_id || !branch_id) return 400: both fields are present
CreateRequired(b) == b.service_id # NULL /\ b.branch_id # NULL

\* pool.getConnection(), validation, beginTransaction, SELECT prefix
CreateBegin(r) ==
  /\ Accept(r)
  /\ poolFree > 0
  /\ \E b \in CreateBodies :
       /\ kind' = [kind EXCEPT ![r] = "create"]
       /\ body' = [body EXCEPT ![r] = [NoBody EXCEPT !.service_id = b.service_id,
                                                      !.branch_id = b.branch_id,
                                                      !.priority_level = b.priority_level]]
       /\ IF ~CreateRequired(b)
          THEN /\ Finish(r, 400, <<>>, <<>>)
               /\ UNCHANGED poolFree
          ELSE /\ pc' = [pc EXCEPT ![r] = "upsert"]
               /\ loc' = [loc EXCEPT ![r] =
                    [NoLoc EXCEPT !.prefix = IF ServicePrefix(b.service_id) = NULL
                                             THEN "TKT" ELSE ServicePrefix(b.service_id)]]
               /\ resp' = [resp EXCEPT ![r] = NoResp]
               /\ emitted' = [emitted EXCEPT ![r] = <<>>]
               /\ poolFree' = poolFree - 1
  /\ UNCHANGED <<seq, tickets, seqLock, ticketLock, clock>>
  /\ UNCHANGED sockVars

\* mutant: ON DUPLICATE KEY UPDATE current_number = 0
CreateUpsert_Reset(r) ==
  /\ At(r, "create", "upsert")
  /\ LET k == KeyOf(body[r]) IN
       /\ CanLockSeq(k, r)
       /\ seqLock' = [seqLock EXCEPT ![k] = r]
       /\ loc' = [loc EXCEPT ![r].seqWrite = 0]
  /\ pc' = [pc EXCEPT ![r] = "forupdate"]
  /\ UNCHANGED <<seq, tickets, ticketLock, poolFree, clock, started,
                 kind, body, resp, emitted>>
  /\ UNCHANGED sockVars

\* INSERT INTO ticket_sequences .. VALUES (.., 0, ..) ON DUPLICATE KEY UPDATE
\* current_number = current_number
CreateUpsert(r) ==
  /\ At(r, "create", "upsert")
  /\ LET k == KeyOf(body[r]) IN
       /\ CanLockSeq(k, r)
       /\ seqLock' = [seqLock EXCEPT ![k] = r]
       /\ loc' = [loc EXCEPT ![r].seqWrite = IF seq[k] = NoRow THEN 0 ELSE seq[k]]
  /\ pc' = [pc EXCEPT ![r] = "forupdate"]
  /\ UNCHANGED <<seq, tickets, ticketLock, poolFree, clock, started,
                 kind, body, resp, emitted>>
  /\ UNCHANGED sockVars

\* SELECT current_number .. FOR UPDATE; currentNumber = (.. || 0) + 1
CreateSelectForUpdate(r) ==
  /\ At(r, "create", "forupdate")
  /\ LET k == KeyOf(body[r])
         row == IF loc[r].seqWrite # NoRow THEN loc[r].seqWrite ELSE seq[k]
     IN
       /\ CanLockSeq(k, r)
       /\ seqLock' = [seqLock EXCEPT ![k] = r]
       /\ loc' = [loc EXCEPT ![r].currentNumber = (IF row = NoRow THEN 0 ELSE row) + 1]
  /\ pc' = [pc EXCEPT ![r] = "update"]
  /\ UNCHANGED <<seq, tickets, ticketLock, poolFree, clock, started,
                 kind, body, resp, emitted>>
  /\ UNCHANGED sockVars

\* mutant: the counter's row lock is given up with the UPDATE, before the
\* ticket is inserted and the transaction commits
CreateUpdateSeq_Unlock(r) ==
  /\ At(r, "create", "update")
  /\ LET k == KeyOf(body[r]) IN
       /\ CanLockSeq(k, r)
       /\ seqLock' = [seqLock EXCEPT ![k] = 0]
       /\ loc' = [loc EXCEPT ![r].seqWrite = loc[r].currentNumber,
                             ![r].ticketNumber =
                                TicketNumber(loc[r].prefix, loc[r].currentNumber)]
  /\ pc' = [pc EXCEPT ![r] = "insert"]
  /\ UNCHANGED <<seq, tickets, ticketLock, poolFree, clock, started,
                 kind, body, resp, emitted>>
  /\ UNCHANGED sockVars

\* UPDATE ticket_sequences SET current_number = ?; ticketNumber = ..
CreateUpdateSeq(r) ==
  /\ At(r, "create", "update")
  /\ LET k == KeyOf(body[r]) IN
       /\ CanLockSeq(k, r)
       /\ seqLock' = [seqLock EXCEPT ![k] = r]
       /\ loc' = [loc EXCEPT ![r].seqWrite = loc[r].currentNumber,
                             ![r].ticketNumber =
                                TicketNumber(loc[r].prefix, loc[r].currentNumber)]
  /\ pc' = [pc EXCEPT ![r] = "insert"]
  /\ UNCHANGED <<seq, tickets, ticketLock, poolFree, clock, started,
                 kind, body, resp, emitted>>
  /\ UNCHANGED sockVars

\* ticketId = uuidv4(); INSERT INTO tickets (..) VALUES (.., 'waiting')
CreateInsertTicket(r) ==
  /\ At(r, "create", "insert")
  /\ \E t \in Instants :
       /\ clock' = t
       /\ loc' = [loc EXCEPT ![r].now = t]
  /\ pc' = [pc EXCEPT ![r] = "commit"]
  /\ UNCHANGED <<seq, tickets, seqLock, ticketLock, poolFree, started,
                 kind, body, resp, emitted>>
  /\ UNCHANGED sockVars

\* uuidv4(): an id no other row has; rows are named in the order they commit
FreshId == Cardinality(DOMAIN tickets) + 1

\* mutant: the INSERT leaves priority_level to the column default
NewTicket_DefaultPriority(r) ==
  [id |-> FreshId,
   ticket_number |-> loc[r].ticketNumber,
   service_id |-> body[r].service_id,
   branch_id |-> body[r].branch_id,
   priority_level |-> 0,
   status |-> "waiting",
   counter_id |-> NULL,
   served_by |-> NULL,
   created_at |-> loc[r].now,
   called_at |-> NullTime,
   started_at |-> NullTime,
   ended_at |-> NullTime]

\* the row the INSERT of POST /tickets writes
NewTicket(r) ==
  [id |-> FreshId,
   ticket_number |-> loc[r].ticketNumber,
   service_id |-> body[r].service_id,
   branch_id |-> body[r].branch_id,
   priority_level |-> IF body[r].priority_level = <<>> THEN 0
                      ELSE body[r].priority_level[1],
   status |-> "waiting",
   counter_id |-> NULL,
   served_by |-> NULL,
   created_at |-> loc[r].now,
   called_at |-> NullTime,
   started_at |-> NullTime,
   ended_at |-> NullTime]

\* connection.commit()
CreateCommit(r) ==
  /\ At(r, "create", "commit")
  /\ seq' = [seq EXCEPT ![KeyOf(body[r])] = loc[r].seqWrite]
  /\ tickets' = tickets @@ (FreshId :> NewTicket(r))
  /\ loc' = [loc EXCEPT ![r].ticketId = FreshId]
  /\ ReleaseLocks(r)
  /\ pc' = [pc EXCEPT ![r] = "reread"]
  /\ UNCHANGED <<poolFree, clock, started, kind, body, resp, emitted>>
  /\ UNCHANGED sockVars

\* query(SELECT t.* ..), emitTicketCreated, 201, release
CreateReread(r) ==
  /\ At(r, "create", "reread")
  /\ poolFree > 0
  /\ LET rows == ReadTicket(loc[r].ticketId) IN
       /\ rows # <<>>
       /\ Finish(r, 201, rows, <<Event("ticket:created", rows[1].branch_id, rows[1])>>)
  /\ poolFree' = poolFree + 1
  /\ UNCHANGED <<seq, tickets, seqLock, ticketLock, clock, started, kind, body>>
  /\ UNCHANGED sockVars

\* mutant: the counter is written outside the transaction (autocommit), so
\* the rollback does not undo it
RolledBack_CounterKept(r) ==
  IF pc[r] \in {"insert", "commit"}
  THEN [seq EXCEPT ![KeyOf(body[r])] = loc[r].seqWrite]
  ELSE seq

\* ROLLBACK: the transaction's writes of the counter row are undone
RolledBack(r) == seq

\* mutant: the connection is released on the success path only (no finally)
CreateFail_Leak(r) ==
  /\ ~Answered
  /\ kind[r] = "create"
  /\ pc[r] \in {"upsert", "forupdate", "update", "insert", "commit", "reread"}
  /\ pc[r] = "reread" => poolFree > 0
  /\ seq' = RolledBack(r)
  /\ ReleaseLocks(r)
  /\ Throw(r)
  /\ UNCHANGED <<poolFree, tickets, clock, started, kind, body>>
  /\ UNCHANGED sockVars

\* an awaited statement throws: catch { rollback; 500 } finally { release };
\* the re-read goes through query(), which waits for a free connection of the
\* pool before it can run and throw
CreateFail(r) ==
  /\ ~Answered
  /\ kind[r] = "create"
  /\ pc[r] \in {"upsert", "forupdate", "update", "insert", "commit", "reread"}
  /\ pc[r] = "reread" => poolFree > 0
  /\ seq' = RolledBack(r)
  /\ ReleaseLocks(r)
  /\ Throw(r)
  /\ poolFree' = poolFree + 1
  /\ UNCHANGED <<tickets, clock, started, kind, body>>
  /\ UNCHANGED sockVars

\* --------------------------------------------- POST /api/tickets/call-next
CallNextBodies ==
  {[counter_id |-> "c1", service_id |-> NULL],
   [counter_id |-> "c1", service_id |-> "s1"],
   [counter_id |-> "c2", service_id |-> NULL],
   [counter_id |-> "cX", service_id |-> NULL],
   [counter_id |-> NULL, service_id |-> NULL]}

\* mutant: the branch of the counter is not part of the WHERE clause
Waiting_AnyBranch(counter_id, service_id) ==
  {t \in DOMAIN tickets :
     /\ tickets[t].status = "waiting"
     /\ (service_id # NULL => tickets[t].service_id = service_id)}

\* WHERE status = 'waiting' AND branch_id = (SELECT branch_id FROM counters
\* WHERE id = ?) [AND service_id = ?]: a NULL branch matches no row
Waiting(counter_id, service_id) ==
  {t \in DOMAIN tickets :
     /\ tickets[t].status = "waiting"
     /\ CounterBranch(counter_id) # NULL
     /\ tickets[t].branch_id = CounterBranch(counter_id)
     /\ (service_id # NULL => tickets[t].service_id = service_id)}

\* mutant: ORDER BY created_at ASC alone (plain FIFO, priority ignored)
Heads_FifoOnly(pool) ==
  {t \in pool : \A u \in pool : tickets[t].created_at <= tickets[u].created_at}

\* ORDER BY priority_level DESC, created_at ASC LIMIT 1: the rows that may come first
Heads(pool) ==
  {t \in pool : \A u \in pool :
     \/ tickets[t].priority_level > tickets[u].priority_level
     \/ /\ tickets[t].priority_level = tickets[u].priority_level
        /\ tickets[t].created_at <= tickets[u].created_at}

\* if (!counter_id) return 400: the field is present
CallNextRequired(b) == b.counter_id # NULL

\* pool.getConnection(), validation, beginTransaction, for the request body b
CallNextAccept(r, b) ==
  /\ Accept(r)
  /\ poolFree > 0
  /\ kind' = [kind EXCEPT ![r] = "callnext"]
  /\ body' = [body EXCEPT ![r] = [NoBody EXCEPT !.counter_id = b.counter_id,
                                                 !.service_id = b.service_id]]
  /\ IF ~CallNextRequired(b)
     THEN /\ Finish(r, 400, <<>>, <<>>)
          /\ UNCHANGED poolFree
     ELSE /\ pc' = [pc EXCEPT ![r] = "select"]
          /\ loc' = [loc EXCEPT ![r] = NoLoc]
          /\ resp' = [resp EXCEPT ![r] = NoResp]
          /\ emitted' = [emitted EXCEPT ![r] = <<>>]
          /\ poolFree' = poolFree - 1
  /\ UNCHANGED <<seq, tickets, seqLock, ticketLock, clock>>
  /\ UNCHANGED sockVars

CallNextBegin(r) == \E b \in CallNextBodies : CallNextAccept(r, b)

\* SELECT id FROM tickets WHERE .. ORDER BY .. LIMIT 1 FOR UPDATE; when no row:
\* commit and { ticket: null }; otherwise ticketId, now = new Date()
CallNextSelect(r) ==
  /\ At(r, "callnext", "select")
  /\ LET pool == Waiting(body[r].counter_id, body[r].service_id) IN
       IF pool = {}
       THEN /\ Finish(r, 200, <<>>, <<>>)
            /\ ReleaseLocks(r)
            /\ poolFree' = poolFree + 1
            /\ UNCHANGED clock
       ELSE /\ \E h \in Heads(pool) :
                 /\ CanLockTicket(h, r)
                 /\ ticketLock' = [ticketLock EXCEPT ![h] = r]
                 /\ \E t \in Later :
                      /\ clock' = t
                      /\ loc' = [loc EXCEPT ![r].ticketId = h, ![r].now = t]
            /\ pc' = [pc EXCEPT ![r] = "update"]
            /\ UNCHANGED <<seqLock, poolFree, resp, emitted>>
  /\ UNCHANGED <<seq, tickets, started, kind, body>>
  /\ UNCHANGED sockVars

\* UPDATE tickets SET status = 'serving', counter_id, called_at, started_at
\* (written under the row lock, visible at commit)
CallNextUpdate(r) ==
  /\ At(r, "callnext", "update")
  /\ CanLockTicket(loc[r].ticketId, r)
  /\ ticketLock' = [ticketLock EXCEPT ![loc[r].ticketId] = r]
  /\ pc' = [pc EXCEPT ![r] = "commit"]
  /\ UNCHANGED <<seq, tickets, seqLock, poolFree, clock, started,
                 kind, body, loc, resp, emitted>>
  /\ UNCHANGED sockVars

\* mutant: the UPDATE sets called_at but not started_at
Served_NoStart(row, counter_id, now) ==
  [row EXCEPT !.status = "serving", !.counter_id = counter_id, !.called_at = now]

\* the row after the UPDATE of call-next
Served(row, counter_id, now) ==
  [row EXCEPT !.status = "serving", !.counter_id = counter_id,
              !.called_at = now, !.started_at = now]

\* connection.commit()
CallNextCommit(r) ==
  /\ At(r, "callnext", "commit")
  /\ tickets' = [tickets EXCEPT ![loc[r].ticketId] =
                   Served(@, body[r].counter_id, loc[r].now)]
  /\ ReleaseLocks(r)
  /\ pc' = [pc EXCEPT ![r] = "reread"]
  /\ UNCHANGED <<seq, poolFree, clock, started, kind, body, loc, resp, emitted>>
  /\ UNCHANGED sockVars

\* LEFT JOIN counters c ON t.counter_id = c.id: c.name, NULL without a counter
CounterName(c) == IF c \in CounterIds THEN <<"name", c>> ELSE <<>>

\* mutant: the announcement event is not published (no emitTicketCalled)
CallNextReread_NoCalled(r) ==
  /\ At(r, "callnext", "reread")
  /\ LET rows == ReadTicket(loc[r].ticketId) IN
       /\ rows # <<>>
       /\ Finish(r, 200, rows, <<Event("ticket:updated", rows[1].branch_id, rows[1])>>)
  /\ poolFree' = poolFree + 1
  /\ UNCHANGED <<seq, tickets, seqLock, ticketLock, clock, started, kind, body>>
  /\ UNCHANGED sockVars

\* connection.execute(SELECT t.* ..), emitTicketUpdated, emitTicketCalled, 200, release
CallNextReread(r) ==
  /\ At(r, "callnext", "reread")
  /\ LET rows == ReadTicket(loc[r].ticketId) IN
       /\ rows # <<>>
       /\ Finish(r, 200, rows,
             <<Event("ticket:updated", rows[1].branch_id, rows[1]),
               Event("ticket:called", rows[1].branch_id,
                     [ticket_number |-> rows[1].ticket_number,
                      counter_name |-> CounterName(rows[1].counter_id)])>>)
  /\ poolFree' = poolFree + 1
  /\ UNCHANGED <<seq, tickets, seqLock, ticketLock, clock, started, kind, body>>
  /\ UNCHANGED sockVars

\* an awaited statement throws: catch { rollback; 500 } finally { release }
CallNextFail(r) ==
  /\ ~Answered
  /\ kind[r] = "callnext"
  /\ pc[r] \in {"select", "update", "commit", "reread"}
  /\ ReleaseLocks(r)
  /\ Throw(r)
  /\ poolFree' = poolFree + 1
  /\ UNCHANGED <<seq, tickets, clock, started, kind, body>>
  /\ UNCHANGED sockVars

\* ------------------------------------------------- PATCH /api/tickets/:id
\* ids a client may name: the committed tickets and one id that does not exist
TargetIds == DOMAIN tickets \cup {0}

PatchBodies ==
  [status : Statuses \cup {NULL}, counter_id : {NULL}, notes : {NULL}]
    \cup {[status |-> "serving", counter_id |-> "c1", notes |-> NULL],
          [status |-> NULL, counter_id |-> "c1", notes |-> NULL],
          [status |-> NULL, counter_id |-> NULL, notes |-> "n"]}

\* mutant: a counter_id in the body also moves the ticket to that counter's
\* branch (updates.push('branch_id = ?'))
Patched_Rebranch(row, b, now) ==
  LET r1 == IF b.status # NULL THEN [row EXCEPT !.status = b.status] ELSE row
      r2 == IF b.status = "serving" THEN [r1 EXCEPT !.started_at = now]
            ELSE IF b.status \in Terminal
                 THEN [r1 EXCEPT !.ended_at = now, !.served_by = UserId]
                 ELSE r1
  IN IF b.counter_id # NULL
     THEN [r2 EXCEPT !.counter_id = b.counter_id,
                     !.branch_id = CounterBranch(b.counter_id)]
     ELSE r2

\* the row after UPDATE tickets SET <updates> WHERE id = ?
Patched(row, b, now) ==
  LET r1 == IF b.status # NULL THEN [row EXCEPT !.status = b.status] ELSE row
      r2 == IF b.status = "serving" THEN [r1 EXCEPT !.started_at = now]
            ELSE IF b.status \in Terminal
                 THEN [r1 EXCEPT !.ended_at = now, !.served_by = UserId]
                 ELSE r1
  IN IF b.counter_id # NULL THEN [r2 EXCEPT !.counter_id = b.counter_id] ELSE r2

\* build the update list; 400 when it is empty; query(UPDATE tickets SET ..)
PatchUpdate(r) ==
  /\ Accept(r)
  /\ \E id \in TargetIds, b \in PatchBodies, ok \in BOOLEAN :
       /\ kind' = [kind EXCEPT ![r] = "patch"]
       /\ body' = [body EXCEPT ![r] = [NoBody EXCEPT !.id = id, !.status = b.status,
                                         !.counter_id = b.counter_id, !.notes = b.notes]]
       /\ IF b.status = NULL /\ b.counter_id = NULL /\ b.notes = NULL
          THEN /\ ok
               /\ Finish(r, 400, <<>>, <<>>)
               /\ UNCHANGED <<tickets, clock>>
          ELSE /\ poolFree > 0
               /\ IF ~ok
                  THEN /\ Answer(r, 500, <<>>, <<>>, "update")
                       /\ UNCHANGED <<tickets, clock>>
                  ELSE /\ pc' = [pc EXCEPT ![r] = "reread"]
                       /\ loc' = [loc EXCEPT ![r] = [NoLoc EXCEPT !.ticketId = id]]
                       /\ resp' = [resp EXCEPT ![r] = NoResp]
                       /\ emitted' = [emitted EXCEPT ![r] = <<>>]
                       /\ IF id \in DOMAIN tickets
                          THEN /\ CanLockTicket(id, 0)
                               /\ \E t \in Later :
                                    /\ clock' = t
                                    /\ tickets' = [tickets EXCEPT ![id] = Patched(@, b, t)]
                          ELSE UNCHANGED <<tickets, clock>>
  /\ UNCHANGED <<seq, seqLock, ticketLock, poolFree>>
  /\ UNCHANGED sockVars

\* query(SELECT t.* ..), emitTicketUpdated (throws on a missing row), 200
PatchReread(r) ==
  /\ At(r, "patch", "reread")
  /\ poolFree > 0
  /\ LET rows == ReadTicket(loc[r].ticketId) IN
       IF rows = <<>>
       THEN Answer(r, 500, <<>>, <<>>, "emit")
       ELSE Finish(r, 200, rows, <<Event("ticket:updated", rows[1].branch_id, rows[1])>>)
  /\ UNCHANGED <<seq, tickets, seqLock, ticketLock, poolFree, clock, started,
                 kind, body>>
  /\ UNCHANGED sockVars

\* the re-read throws: catch { 500 }
PatchFail(r) ==
  /\ At(r, "patch", "reread")
  /\ poolFree > 0
  /\ Throw(r)
  /\ UNCHANGED <<seq, tickets, seqLock, ticketLock, poolFree, clock, started,
                 kind, body>>
  /\ UNCHANGED sockVars

\* ------------------------------------------------ DELETE /api/tickets/:id
\* query(SELECT branch_id ..); 404 when there is no row
DeleteSelect(r) ==
  /\ Accept(r)
  /\ poolFree > 0
  /\ \E id \in TargetIds :
       /\ kind' = [kind EXCEPT ![r] = "delete"]
       /\ body' = [body EXCEPT ![r] = [NoBody EXCEPT !.id = id]]
       /\ IF id \notin DOMAIN tickets
          THEN Finish(r, 404, <<>>, <<>>)
          ELSE /\ pc' = [pc EXCEPT ![r] = "update"]
               /\ loc' = [loc EXCEPT ![r] = [NoLoc EXCEPT !.ticketId = id,
                                                          !.branchId = tickets[id].branch_id]]
               /\ resp' = [resp EXCEPT ![r] = NoResp]
               /\ emitted' = [emitted EXCEPT ![r] = <<>>]
  /\ UNCHANGED <<seq, tickets, seqLock, ticketLock, poolFree, clock>>
  /\ UNCHANGED sockVars

\* the row after UPDATE tickets SET status = 'cancelled', ended_at = NOW()
Cancelled(row, now) == [row EXCEPT !.status = "cancelled", !.ended_at = now]

\* mutant: a hard delete (DELETE FROM tickets WHERE id = ?)
DeleteUpdate_Remove(r) ==
  /\ At(r, "delete", "update")
  /\ poolFree > 0
  /\ CanLockTicket(loc[r].ticketId, 0)
  /\ \E t \in Later :
       /\ clock' = t
       /\ tickets' = [u \in DOMAIN tickets \ {loc[r].ticketId} |-> tickets[u]]
  /\ Finish(r, 200, <<>>,
            <<Event("ticket:deleted", loc[r].branchId, [id |-> loc[r].ticketId])>>)
  /\ UNCHANGED <<seq, seqLock, ticketLock, poolFree, started, kind, body>>
  /\ UNCHANGED sockVars

\* query(UPDATE tickets SET status = ?, ended_at = NOW()), emitTicketDeleted, 200
DeleteUpdate(r) ==
  /\ At(r, "delete", "update")
  /\ poolFree > 0
  /\ CanLockTicket(loc[r].ticketId, 0)
  /\ \E t \in Later :
       /\ clock' = t
       /\ tickets' = [tickets EXCEPT ![loc[r].ticketId] = Cancelled(@, t)]
  /\ Finish(r, 200, <<>>,
            <<Event("ticket:deleted", loc[r].branchId, [id |-> loc[r].ticketId])>>)
  /\ UNCHANGED <<seq, seqLock, ticketLock, poolFree, started, kind, body>>
  /\ UNCHANGED sockVars

\* the UPDATE throws: catch { 500 }
DeleteFail(r) ==
  /\ At(r, "delete", "update")
  /\ poolFree > 0
  /\ Throw(r)
  /\ UNCHANGED <<seq, tickets, seqLock, ticketLock, poolFree, clock, started,
                 kind, body>>
  /\ UNCHANGED sockVars

\* the client has read the response: the slot is free again
Close(r) ==
  /\ pc[r] = "done"
  /\ pc' = [pc EXCEPT ![r] = "idle"]
  /\ kind' = [kind EXCEPT ![r] = "none"]
  /\ body' = [body EXCEPT ![r] = NoBody]
  /\ resp' = [resp EXCEPT ![r] = NoResp]
  /\ emitted' = [emitted EXCEPT ![r] = <<>>]
  /\ UNCHANGED <<seq, tickets, seqLock, ticketLock, poolFree, clock, started, loc>>
  /\ UNCHANGED sockVars

\* ---------------------------------------------------------- specification
Next ==
  \E r \in Reqs :
    \/ Close(r)
    \/ CreateBegin(r)
    \/ CreateUpsert(r)
    \/ CreateSelectForUpdate(r)
    \/ CreateUpdateSeq(r)
    \/ CreateInsertTicket(r)
    \/ CreateCommit(r)
    \/ CreateReread(r)
    \/ CreateFail(r)
    \/ CallNextBegin(r)
    \/ CallNextSelect(r)
    \/ CallNextUpdate(r)
    \/ CallNextCommit(r)
    \/ CallNextReread(r)
    \/ CallNextFail(r)
    \/ PatchUpdate(r)
    \/ PatchReread(r)
    \/ PatchFail(r)
    \/ DeleteSelect(r)
    \/ DeleteUpdate(r)
    \/ DeleteFail(r)

Spec == Init /\ [][Next]_vars

\* ------------------------------------------- the dispatch race on one pool
\* K waiting tickets of pool (branch b1, service s1) and one request per slot,
\* every one a call-next of counter c1 with service filter s1, none failing
PoolBody == [counter_id |-> "c1", service_id |-> "s1"]

SecondTicket ==
  [FirstTicket EXCEPT !.id = 2, !.ticket_number = TicketNumber("A", 2),
                      !.priority_level = 2, !.created_at = 2]

OtherTicket ==
  [FirstTicket EXCEPT !.id = 3, !.ticket_number = TicketNumber("B", 1),
                      !.service_id = "s2"]

Issued == <<FirstTicket, SecondTicket, OtherTicket>>

InitCallNext ==
  /\ \E S \in {{}, {1}, {3}, {1, 2}, {1, 3}, {1, 2, 3}} :
       /\ tickets = [t \in S |-> Issued[t]]
       /\ seq = [k \in Keys |->
                   IF k = <<"s1", "b1", Today>> /\ S \cap {1, 2} # {}
                   THEN Cardinality(S \cap {1, 2})
                   ELSE IF k = <<"s2", "b1", Today>> /\ 3 \in S THEN 1 ELSE NoRow]
  /\ seqLock = [k \in Keys |-> 0]
  /\ ticketLock = [t \in TicketIds |-> 0]
  /\ poolFree = connectionLimit
  /\ clock = 2
  /\ started = 0
  /\ kind = [r \in Reqs |-> "none"]
  /\ pc = [r \in Reqs |-> "idle"]
  /\ body = [r \in Reqs |-> NoBody]
  /\ loc = [r \in Reqs |-> NoLoc]
  /\ resp = [r \in Reqs |-> NoResp]
  /\ emitted = [r \in Reqs |-> <<>>]
  /\ InitSockets

\* the client keeps the response it was sent
Keep(r) ==
  /\ pc[r] = "done"
  /\ pc' = [pc EXCEPT ![r] = "kept"]
  /\ UNCHANGED <<seq, tickets, seqLock, ticketLock, poolFree, clock, started,
                 kind, body, loc, resp, emitted>>
  /\ UNCHANGED sockVars

NextCallNext ==
  \E r \in Reqs :
    \/ CallNextAccept(r, PoolBody)
    \/ CallNextSelect(r)
    \/ CallNextUpdate(r)
    \/ CallNextCommit(r)
    \/ CallNextReread(r)
    \/ Keep(r)

SpecCallNext == InitCallNext /\ [][NextCallNext]_vars

\* ------------------------------------- one creation late in a busy day
\* the sequence values the creation is run for: around each change of the
\* number of digits
Numbers == (1..11) \cup (98..101) \cup (998..MaxNumber)

\* the ticket issued earlier for sequence value n of key (s, b, today)
IssuedTicket(s, b, n) ==
  [FirstTicket EXCEPT !.id = n, !.ticket_number = TicketNumber(ServicePrefix(s), n),
                      !.service_id = s, !.branch_id = b]

\* key (s, b, today) has issued n - 1 tickets; request 1, a POST /tickets for
\* the key, has its connection and its transaction and is at the upsert
InitNumber ==
  /\ \E n \in Numbers, s \in ServiceIds, b \in BranchIds :
       /\ seq = [k \in Keys |-> IF k = <<s, b, Today>> /\ n > 1 THEN n - 1 ELSE NoRow]
       /\ tickets = [t \in 1..(n - 1) |-> IssuedTicket(s, b, t)]
       /\ body = [r \in Reqs |-> IF r = 1
                     THEN [NoBody EXCEPT !.service_id = s, !.branch_id = b]
                     ELSE NoBody]
       /\ loc = [r \in Reqs |-> IF r = 1
                    THEN [NoLoc EXCEPT !.prefix = ServicePrefix(s)]
                    ELSE NoLoc]
  /\ seqLock = [k \in Keys |-> 0]
  /\ ticketLock = [t \in TicketIds |-> 0]
  /\ poolFree = connectionLimit - 1
  /\ clock = 1
  /\ started = 1
  /\ kind = [r \in Reqs |-> IF r = 1 THEN "create" ELSE "none"]
  /\ pc = [r \in Reqs |-> IF r = 1 THEN "upsert" ELSE "idle"]
  /\ resp = [r \in Reqs |-> NoResp]
  /\ emitted = [r \in Reqs |-> <<>>]
  /\ InitSockets

NextNumber ==
  \E r \in Reqs :
    \/ CreateUpsert(r)
    \/ CreateSelectForUpdate(r)
    \/ CreateUpdateSeq(r)
    \/ CreateInsertTicket(r)
    \/ CreateCommit(r)
    \/ CreateReread(r)

SpecNumber == InitNumber /\ [][NextNumber]_vars

\* ------------------------------- creations on a pool they can exhaust
\* a pool with as many connections as there are requests in flight at once
\* (createPool with connectionLimit = P, waitForConnections, queueLimit 0)
InitPool ==
  /\ seq = [k \in Keys |-> NoRow]
  /\ tickets = <<>>
  /\ seqLock = [k \in Keys |-> 0]
  /\ ticketLock = [t \in TicketIds |-> 0]
  /\ poolFree = Cardinality(Reqs)
  /\ clock = 1
  /\ started = 0
  /\ kind = [r \in Reqs |-> "none"]
  /\ pc = [r \in Reqs |-> "idle"]
  /\ body = [r \in Reqs |-> NoBody]
  /\ loc = [r \in Reqs |-> NoLoc]
  /\ resp = [r \in Reqs |-> NoResp]
  /\ emitted = [r \in Reqs |-> <<>>]
  /\ InitSockets

NextPool ==
  \E r \in Reqs :
    \/ Close(r)
    \/ CreateBegin(r)
    \/ CreateUpsert(r)
    \/ CreateSelectForUpdate(r)
    \/ CreateUpdateSeq(r)
    \/ CreateInsertTicket(r)
    \/ CreateCommit(r)
    \/ CreateReread(r)
    \/ CreateFail(r)

SpecPool == InitPool /\ [][NextPool]_vars

\* ------------------------------------------- Socket.IO rooms and events
\* (src/src/routes/users.js: initializeSocketIO and the emitters)
\* what a client may send as branchId: the id as a string, or a one-element
\* array holding it, which `branch:${branchId}` formats to the same room name
Payloads == [form : {"string", "array"}, text : BranchIds]

TicketEvents == {"ticket:created", "ticket:updated", "ticket:called", "ticket:deleted"}

\* `branch:${branchId}`: the template literal turns the payload into a string
BranchRoom(p) == <<"branch", p.text>>

\* the key a Map files the payload under: a string by its value, an object by
\* its identity (id is the number of the object, 0 for a string)
MapKey(p, id) == IF p.form = "string" THEN <<"string", p.text, 0>> ELSE <<"array", p.text, id>>

\* connectedClients.has(branchId) for a payload just received: an object
\* that has just arrived is no key of the Map
HasKey(p) == p.form = "string" /\ MapKey(p, 0) \in DOMAIN connectedClients

\* io.on('connection'): socket ids are handed out in order, never twice
Connect(s) ==
  /\ sockets[s] = "new"
  /\ \A q \in Sockets : q < s => sockets[q] # "new"
  /\ sockets' = [sockets EXCEPT ![s] = "connected"]
  /\ UNCHANGED <<rooms, connectedClients, delivered, published, objects>>
  /\ UNCHANGED dbVars

\* socket.on('join:branch'): socket.join, then the registry
JoinBranch(s) ==
  /\ sockets[s] = "connected"
  /\ \E p \in Payloads :
       /\ p.form = "array" => objects < MaxObjects
       /\ objects' = IF p.form = "array" THEN objects + 1 ELSE objects
       /\ rooms' = [rooms EXCEPT ![s] = @ \cup {BranchRoom(p)}]
       /\ connectedClients' =
            IF HasKey(p)
            THEN [connectedClients EXCEPT ![MapKey(p, 0)] = @ \cup {s}]
            ELSE connectedClients @@ (MapKey(p, objects + 1) :> {s})
  /\ UNCHANGED <<sockets, delivered, published>>
  /\ UNCHANGED dbVars

\* socket.on('join:counter')
JoinCounter(s) ==
  /\ sockets[s] = "connected"
  /\ \E c \in CounterIds : rooms' = [rooms EXCEPT ![s] = @ \cup {<<"counter", c>>}]
  /\ UNCHANGED <<sockets, connectedClients, delivered, published, objects>>
  /\ UNCHANGED dbVars

\* socket.on('leave:branch'): socket.leave, then the registry
LeaveBranch(s) ==
  /\ sockets[s] = "connected"
  /\ \E p \in Payloads :
       /\ rooms' = [rooms EXCEPT ![s] = @ \ {BranchRoom(p)}]
       /\ connectedClients' =
            IF HasKey(p)
            THEN [connectedClients EXCEPT ![MapKey(p, 0)] = @ \ {s}]
            ELSE connectedClients
  /\ UNCHANGED <<sockets, delivered, published, objects>>
  /\ UNCHANGED dbVars

\* socket.on('disconnect'): Socket.IO has taken the socket out of its rooms;
\* forEach deletes the id from every Set and drops the Sets left empty
Disconnect(s) ==
  /\ sockets[s] = "connected"
  /\ sockets' = [sockets EXCEPT ![s] = "gone"]
  /\ rooms' = [rooms EXCEPT ![s] = {}]
  /\ connectedClients' =
       [k \in {j \in DOMAIN connectedClients : connectedClients[j] \ {s} # {}} |->
          connectedClients[k] \ {s}]
  /\ UNCHANGED <<delivered, published, objects>>
  /\ UNCHANGED dbVars

\* mutant: io.emit(e, ..): every connected socket gets the event
EmitTicketEvent_Broadcast(e, b) ==
  /\ published < MaxEvents
  /\ published' = published + 1
  /\ delivered' = [s \in Sockets |->
                     IF sockets[s] = "connected"
                     THEN delivered[s] \cup {<<published + 1, e, b>>}
                     ELSE delivered[s]]
  /\ UNCHANGED <<sockets, rooms, connectedClients, objects>>
  /\ UNCHANGED dbVars

\* emitTicketCreated / Updated / Called / Deleted for a ticket of branch b:
\* io.to(`branch:${b}`).emit(e, ..) reaches the sockets now in that room
EmitTicketEvent(e, b) ==
  /\ published < MaxEvents
  /\ published' = published + 1
  /\ delivered' = [s \in Sockets |->
                     IF sockets[s] = "connected" /\ <<"branch", b>> \in rooms[s]
                     THEN delivered[s] \cup {<<published + 1, e, b>>}
                     ELSE delivered[s]]
  /\ UNCHANGED <<sockets, rooms, connectedClients, objects>>
  /\ UNCHANGED dbVars

\* getConnectedClientsCount(branchId): connectedClients.get(branchId)?.size || 0
getConnectedClientsCount(b) ==
  IF <<"string", b, 0>> \in DOMAIN connectedClients
  THEN Cardinality(connectedClients[<<"string", b, 0>>])
  ELSE 0

InitSocketIO ==
  /\ seq = [k \in Keys |-> NoRow]
  /\ tickets = <<>>
  /\ seqLock = [k \in Keys |-> 0]
  /\ ticketLock = [t \in TicketIds |-> 0]
  /\ poolFree = connectionLimit
  /\ clock = 1
  /\ started = 0
  /\ kind = [r \in Reqs |-> "none"]
  /\ pc = [r \in Reqs |-> "idle"]
  /\ body = [r \in Reqs |-> NoBody]
  /\ loc = [r \in Reqs |-> NoLoc]
  /\ resp = [r \in Reqs |-> NoResp]
  /\ emitted = [r \in Reqs |-> <<>>]
  /\ InitSockets

NextSocketIO ==
  \/ \E s \in Sockets :
       \/ Connect(s)
       \/ JoinBranch(s)
       \/ JoinCounter(s)
       \/ LeaveBranch(s)
       \/ Disconnect(s)
  \/ \E e \in TicketEvents, b \in BranchIds : EmitTicketEvent(e, b)

SpecSocketIO == InitSocketIO /\ [][NextSocketIO]_vars

\* ================================================================ claims

\* the tickets issued for a key
TicketsOf(k) ==
  {t \in DOMAIN tickets : <<tickets[t].service_id, tickets[t].branch_id, Today>> = k}

\* C1: for every key (service, branch, date), the sequence numbers of the
\* committed tickets of the key are pairwise distinct and are exactly 1..N,
\* N the number of tickets committed for the key, in every reachable state
\* and so under every interleaving of the creations' transaction steps.
C1_GaplessDistinct ==
  \A k \in Keys :
    LET nums == {SeqOf(tickets[t].ticket_number) : t \in TicketsOf(k)} IN
      /\ nums = 1..Cardinality(TicketsOf(k))
      /\ \A t, u \in TicketsOf(k) :
           t # u => tickets[t].ticket_number # tickets[u].ticket_number

\* C1 witness: two creations of one key in flight together, one holding the
\* row lock with its number computed and its ticket inserted, the other begun
\* and waiting for the lock at the upsert.
C1_Witness ==
  \E r1, r2 \in Reqs :
    /\ r1 # r2
    /\ kind[r1] = "create" /\ kind[r2] = "create"
    /\ KeyOf(body[r1]) = KeyOf(body[r2])
    /\ pc[r1] = "commit" /\ pc[r2] = "upsert"
    /\ seqLock[KeyOf(body[r1])] = r1
    /\ loc[r1].currentNumber = 2

\* the ticket a call-next request has been assigned: the row it selected and
\* locked or, once answered, the row of its response
Assigned(r) ==
  IF kind[r] # "callnext" THEN 0
  ELSE IF pc[r] \in {"update", "commit", "reread"} THEN loc[r].ticketId
  ELSE IF pc[r] \in {"done", "kept"} /\ resp[r].ticket # <<>> THEN resp[r].ticket[1].id
  ELSE 0

InPool(t) == tickets[t].branch_id = "b1" /\ tickets[t].service_id = "s1"
PoolCount == Cardinality({t \in DOMAIN tickets : InPool(t)})
AllKept == \A r \in Reqs : pc[r] = "kept"
GotTicket == {r \in Reqs : resp[r].code = 200 /\ resp[r].ticket # <<>>}
GotEmpty == {r \in Reqs : resp[r].code = 200 /\ resp[r].ticket = <<>>}

\* C2: with K waiting tickets in a pool and K+M concurrent call-next requests
\* on it, no two requests are ever assigned the same ticket, and once all have
\* answered exactly min(K, K+M) tickets are serving, each request that got a
\* ticket got a different one, and the other requests all saw the empty queue.
C2_NoDoubleDispatch ==
  /\ \A r1, r2 \in Reqs :
       (r1 # r2 /\ Assigned(r1) # 0 /\ Assigned(r2) # 0) => Assigned(r1) # Assigned(r2)
  /\ AllKept =>
       LET n == Cardinality(Reqs)
           k == Min(PoolCount, n)
       IN /\ Cardinality({t \in DOMAIN tickets : tickets[t].status = "serving"}) = k
          /\ Cardinality(GotTicket) = k
          /\ Cardinality({Assigned(r) : r \in GotTicket}) = k
          /\ Cardinality(GotEmpty) = n - k
          /\ \A t \in DOMAIN tickets : ~InPool(t) => tickets[t].status = "waiting"

\* C2 witness: every request has answered, the pool held one ticket, one
\* request was given it and another saw the empty queue (K = 1, M >= 1).
C2_Witness ==
  /\ AllKept
  /\ PoolCount = 1
  /\ GotTicket # {}
  /\ GotEmpty # {}

\* the rows a call-next with this body may take: waiting, in the counter's
\* branch, and of the service when a filter is passed
Eligible(b) ==
  {t \in DOMAIN tickets :
     /\ tickets[t].status = "waiting"
     /\ tickets[t].branch_id = CounterBranch(b.counter_id)
     /\ (b.service_id = NULL \/ tickets[t].service_id = b.service_id)}

\* C3: the ticket a call-next selects is eligible, no eligible ticket has a
\* higher priority_level, and no eligible ticket of the same priority_level
\* has an earlier created_at.
C3_PriorityThenFifo ==
  [][\A r \in Reqs :
       (kind[r] = "callnext" /\ pc[r] = "select" /\ pc'[r] = "update") =>
         LET h == loc'[r].ticketId IN
           /\ h \in Eligible(body[r])
           /\ \A u \in Eligible(body[r]) :
                /\ tickets[u].priority_level <= tickets[h].priority_level
                /\ tickets[u].priority_level = tickets[h].priority_level
                     => tickets[h].created_at <= tickets[u].created_at]_vars

\* C3 witness: a call-next holds the priority-2 ticket it selected while an
\* older ticket of priority 0 is still waiting in the same pool.
C3_Witness ==
  \E r \in Reqs :
    /\ kind[r] = "callnext" /\ pc[r] = "update"
    /\ \E u \in Eligible(body[r]) :
         /\ u # loc[r].ticketId
         /\ tickets[u].created_at < tickets[loc[r].ticketId].created_at
         /\ tickets[u].priority_level < tickets[loc[r].ticketId].priority_level

\* the committed counter of a key, 0 while the row does not exist
Committed(k) == IF seq[k] = NoRow THEN 0 ELSE seq[k]

\* C4: when the ticket INSERT of a creation throws after the counter was
\* incremented in its transaction, the rollback leaves the committed counter
\* of the key at the value the attempt read (its number minus one), commits no
\* ticket row and frees the row lock; and every creation that reads the
\* counter computes the committed value plus one, so the next successful
\* creation on the key receives the failed attempt's number.
C4_RollbackRestoresCounter ==
  [][\A r \in Reqs :
       /\ (kind[r] = "create" /\ pc[r] = "insert" /\ pc'[r] = "done") =>
            /\ resp'[r].code = 500
            /\ seq' = seq
            /\ tickets' = tickets
            /\ Committed(KeyOf(body[r]))' + 1 = loc[r].currentNumber
            /\ seqLock'[KeyOf(body[r])] = 0
       /\ (kind[r] = "create" /\ pc[r] = "forupdate" /\ pc'[r] = "update") =>
            loc'[r].currentNumber = Committed(KeyOf(body[r])) + 1]_vars

\* C4 witness: a creation has answered 500 for a throwing INSERT INTO tickets
\* on a key whose committed counter already stood at 1.
C4_Witness ==
  \E r \in Reqs :
    /\ kind[r] = "create" /\ pc[r] = "done"
    /\ resp[r].code = 500 /\ resp[r].error = "insert"
    /\ seq[KeyOf(body[r])] = 1
    /\ Cardinality(TicketsOf(KeyOf(body[r]))) = 1

\* C5: no step of any handler takes a ticket whose status is done, cancelled
\* or skipped to the status waiting or serving.
C5_TerminalIsFinal ==
  [][\A t \in DOMAIN tickets :
       tickets[t].status \in Terminal =>
         tickets'[t].status \notin {"waiting", "serving"}]_vars

\* request r answers in this step, with the generic failure of its handler
Fails(r) == pc[r] # "done" /\ pc'[r] = "done" /\ resp'[r].code = 500

\* C6: when POST /tickets answers 500, the request has committed no ticket row
\* and the committed counter of its key is below the number it computed, that
\* is, no number was consumed by it.
C6_FailureConsumesNothing ==
  [][\A r \in Reqs :
       (kind[r] = "create" /\ Fails(r)) =>
         /\ loc[r].ticketId \notin DOMAIN tickets'
         /\ \/ loc[r].currentNumber = 0
            \/ Committed(KeyOf(body[r]))' < loc[r].currentNumber]_vars

\* C7: when POST /tickets/call-next answers 500, the ticket the request had
\* selected, if any, is not serving.
C7_FailureServesNothing ==
  [][\A r \in Reqs :
       (kind[r] = "callnext" /\ Fails(r) /\ loc[r].ticketId # 0) =>
         tickets'[loc[r].ticketId].status # "serving"]_vars

\* C8: a call-next whose SELECT finds no eligible ticket answers in that very
\* step; no ticket row and no counter row changes, it publishes no event, it
\* keeps no row lock, and unless the statement threw the answer is 200 with
\* ticket: null.
C8_EmptyQueueIsNormal ==
  [][\A r \in Reqs :
       (kind[r] = "callnext" /\ pc[r] = "select" /\ pc'[r] # "select"
          /\ Eligible(body[r]) = {}) =>
         /\ pc'[r] = "done"
         /\ tickets' = tickets
         /\ seq' = seq
         /\ emitted'[r] = <<>>
         /\ \A t \in TicketIds : ticketLock'[t] # r
         /\ resp'[r].error = NULL => (resp'[r].code = 200 /\ resp'[r].ticket = <<>>)]_vars

\* C8 witness: a call-next of an existing counter has answered 200 with
\* ticket: null while tickets exist that are not eligible for it.
C8_Witness ==
  \E r \in Reqs :
    /\ kind[r] = "callnext" /\ pc[r] = "done"
    /\ CounterBranch(body[r].counter_id) # NULL
    /\ resp[r].code = 200 /\ resp[r].ticket = <<>>
    /\ emitted[r] = <<>>
    /\ DOMAIN tickets # {}

\* C9: every ticket has created_at <= called_at <= ended_at, each comparison
\* made when both of its timestamps are set.
C9_TimestampOrder ==
  \A t \in DOMAIN tickets :
    LET x == tickets[t] IN
      /\ x.called_at # NullTime => x.created_at <= x.called_at
      /\ x.ended_at # NullTime => x.created_at <= x.ended_at
      /\ (x.called_at # NullTime /\ x.ended_at # NullTime) => x.called_at <= x.ended_at

\* C10: no step removes a committed ticket or changes its ticket_number,
\* branch_id or service_id.
C10_IdentityImmutable ==
  [][\A t \in DOMAIN tickets :
       /\ t \in DOMAIN tickets'
       /\ tickets'[t].ticket_number = tickets[t].ticket_number
       /\ tickets'[t].branch_id = tickets[t].branch_id
       /\ tickets'[t].service_id = tickets[t].service_id]_vars

\* C10 witness: a ticket of branch b2 that call-next dispatched to a counter
\* and a PATCH or DELETE then ended.
C10_Witness ==
  \E t \in DOMAIN tickets :
    /\ tickets[t].branch_id = "b2"
    /\ tickets[t].status \in Terminal
    /\ tickets[t].called_at # NullTime
    /\ tickets[t].ended_at # NullTime

\* C11: no step removes a committed ticket row, so the set of ticket ids only
\* grows; a DELETE /tickets/:id that answers 200 leaves its ticket in the
\* table with status cancelled.
C11_RowNeverRemoved ==
  [][/\ DOMAIN tickets \subseteq DOMAIN tickets'
     /\ \A r \in Reqs :
          (kind[r] = "delete" /\ pc[r] = "update" /\ pc'[r] = "done"
             /\ resp'[r].code = 200) =>
            /\ loc[r].ticketId \in DOMAIN tickets'
            /\ tickets'[loc[r].ticketId].status = "cancelled"]_vars

\* C11 witness: a DELETE has answered 200 for a ticket that call-next had
\* dispatched; the row is still there, cancelled, beside another row.
C11_Witness ==
  \E r \in Reqs :
    /\ kind[r] = "delete" /\ pc[r] = "done" /\ resp[r].code = 200
    /\ body[r].id \in DOMAIN tickets
    /\ tickets[body[r].id].status = "cancelled"
    /\ tickets[body[r].id].called_at # NullTime
    /\ Cardinality(DOMAIN tickets) >= 2

\* C12: a POST /tickets without service_id or branch_id, and a call-next
\* without counter_id, answers 400 in the step that accepts it, never enters
\* its transaction, takes no row lock, and leaves every ticket and every
\* sequence counter unchanged; and every request inside a transaction has
\* its required fields.
C12_ValidationBeforeTransaction ==
  [][\A r \in Reqs :
       /\ (pc[r] = "idle" /\ pc'[r] # "idle" /\
           \/ kind'[r] = "create" /\
                (body'[r].service_id = NULL \/ body'[r].branch_id = NULL)
           \/ kind'[r] = "callnext" /\ body'[r].counter_id = NULL) =>
            /\ pc'[r] = "done"
            /\ resp'[r].code = 400
            /\ tickets' = tickets
            /\ seq' = seq
            /\ seqLock' = seqLock
            /\ ticketLock' = ticketLock
            /\ emitted'[r] = <<>>
       /\ (kind'[r] = "create" /\ pc'[r] \notin {"idle", "done"}) =>
            (body'[r].service_id # NULL /\ body'[r].branch_id # NULL)
       /\ (kind'[r] = "callnext" /\ pc'[r] \notin {"idle", "done"}) =>
            body'[r].counter_id # NULL]_vars

\* C12 witness: a POST /tickets without branch_id has answered 400 while
\* another creation is inside its transaction holding the counter's row lock.
C12_Witness ==
  \E r, q \in Reqs :
    /\ kind[r] = "create" /\ pc[r] = "done" /\ resp[r].code = 400
    /\ body[r].service_id # NULL /\ body[r].branch_id = NULL
    /\ kind[q] = "create" /\ pc[q] = "insert"
    /\ seqLock[KeyOf(body[q])] = q

\* C13: a call-next whose counter_id names no counter, once its SELECT has
\* run without throwing, answers with a client error (4xx) and changes no
\* ticket.
C13_UnknownCounterIsClientError ==
  [][\A r \in Reqs :
       (kind[r] = "callnext" /\ pc[r] = "select" /\ pc'[r] = "done"
          /\ CounterBranch(body[r].counter_id) = NULL
          /\ resp'[r].error = NULL) =>
         /\ resp'[r].code \in 400..499
         /\ tickets' = tickets]_vars

\* the names of the events a request published, in order
EventNames(r) == [i \in DOMAIN emitted[r] |-> emitted[r][i].event]

\* C14: a request publishes events only in a step taken after its commit, and
\* only about a row that is committed: ticket:created carries a committed
\* ticket, ticket:updated and ticket:called of a call-next carry a ticket
\* whose dispatch is committed (called_at set); a creation or call-next that fails before or at
\* its commit (and so rolls back) publishes nothing; a call-next that answers
\* 200 with a ticket has published ticket:updated and then ticket:called for
\* that ticket.
C14_EventsAfterCommit ==
  [][\A r \in Reqs :
       /\ (kind[r] \in {"create", "callnext"} /\ emitted'[r] # <<>>
             /\ emitted'[r] # emitted[r]) =>
            /\ pc[r] = "reread"
            /\ loc[r].ticketId \in DOMAIN tickets
            /\ \A i \in DOMAIN emitted'[r] :
                 emitted'[r][i].room = <<"branch", tickets[loc[r].ticketId].branch_id>>
            /\ kind[r] = "create" =>
                 /\ EventNames(r)' = <<"ticket:created">>
                 /\ emitted'[r][1].data.id = loc[r].ticketId
            /\ kind[r] = "callnext" =>
                 tickets[loc[r].ticketId].called_at # NullTime
       /\ (kind[r] \in {"create", "callnext"} /\ Fails(r)
             /\ pc[r] # "reread") =>
            emitted'[r] = <<>>
       /\ (kind[r] = "callnext" /\ pc[r] # "done" /\ pc'[r] = "done"
             /\ resp'[r].code = 200 /\ resp'[r].ticket # <<>>) =>
            /\ EventNames(r)' = <<"ticket:updated", "ticket:called">>
            /\ emitted'[r][1].data.id = loc[r].ticketId
            /\ emitted'[r][2].data.ticket_number =
                 tickets[loc[r].ticketId].ticket_number]_vars

\* C14 witness: a call-next has answered 200 with its ticket and both events
\* published, while a creation that has inserted its ticket but not yet
\* committed has published nothing.
C14_Witness ==
  \E r, q \in Reqs :
    /\ kind[r] = "callnext" /\ pc[r] = "done"
    /\ resp[r].code = 200 /\ resp[r].ticket # <<>>
    /\ Len(emitted[r]) = 2
    /\ kind[q] = "create" /\ pc[q] = "commit"
    /\ emitted[q] = <<>>

\* the requests that hold a pooled connection: a POST /tickets or call-next
\* that has been accepted and has not answered yet
Holding == {r \in Reqs : kind[r] \in {"create", "callnext"} /\ pc[r] \notin {"idle", "done"}}

\* C15: the free connections of the pool are exactly the pool size minus the
\* POST /tickets and call-next requests still in flight, so every such request
\* has given back its connection once, and no more than once, by the time it
\* has answered, on every exit path; and a request that has answered holds no
\* row lock.
C15_ConnectionReleased ==
  /\ poolFree = connectionLimit - Cardinality(Holding)
  /\ \A r \in Reqs :
       pc[r] \in {"idle", "done"} =>
         /\ \A k \in Keys : seqLock[k] # r
         /\ \A t \in TicketIds : ticketLock[t] # r

\* C15 witness: a creation has answered 500 after the rollback of a throwing
\* INSERT, its connection back in the pool and the counter's row lock free,
\* while a call-next in flight holds a connection and a ticket's row lock.
C15_Witness ==
  \E r, q \in Reqs :
    /\ kind[r] = "create" /\ pc[r] = "done"
    /\ resp[r].code = 500 /\ resp[r].error = "insert"
    /\ seqLock[KeyOf(body[r])] = 0
    /\ kind[q] = "callnext" /\ pc[q] = "update"
    /\ ticketLock[loc[q].ticketId] = q
    /\ poolFree = connectionLimit - 1

\* ticket number tn is prefix p, a hyphen and the decimal digits of n, at
\* least three of them, with leading zeros only to reach three
WellFormed(tn, p, n) ==
  LET d == SubSeq(tn, 3, Len(tn)) IN
    /\ Len(tn) >= 5
    /\ tn[1] = p
    /\ tn[2] = "-"
    /\ \A i \in 1..Len(d) : \E c \in 1..10 : d[i] = DigitChars[c]
    /\ DigitsValue(d) = n
    /\ Len(d) > 3 => d[1] # "0"

\* C16: the ticket number a creation computes for sequence value n and
\* prefix p, and the one it commits, is p, a hyphen, and n in decimal padded
\* with zeros on the left to at least 3 digits; 1000 and more are written with
\* all their digits.
C16_NumberFormat ==
  \A r \in Reqs :
    /\ (kind[r] = "create" /\ pc[r] \in {"insert", "commit"}) =>
         WellFormed(loc[r].ticketNumber, loc[r].prefix, loc[r].currentNumber)
    /\ (kind[r] = "create" /\ pc[r] = "reread") =>
         WellFormed(tickets[loc[r].ticketId].ticket_number, loc[r].prefix,
                    loc[r].currentNumber)

\* C16 witness: the thousandth ticket of a key has been committed with a
\* number of four digits.
C16_Witness ==
  \E r \in Reqs :
    /\ kind[r] = "create" /\ pc[r] = "reread"
    /\ loc[r].currentNumber = 1000
    /\ Len(tickets[loc[r].ticketId].ticket_number) = 6

\* C17: every step that changes the status of a ticket changes it along one
\* of waiting->serving, waiting->cancelled, serving->done, serving->cancelled,
\* serving->skipped.
C17_AllowedTransitions ==
  [][\A t \in DOMAIN tickets :
       tickets'[t].status # tickets[t].status =>
         <<tickets[t].status, tickets'[t].status>> \in
           {<<"waiting", "serving">>, <<"waiting", "cancelled">>,
            <<"serving", "done">>, <<"serving", "cancelled">>,
            <<"serving", "skipped">>}]_vars

\* C18: the commit of a call-next for counter c that found ticket h leaves h
\* with status serving, counter_id c and called_at = started_at = the instant
\* the handler took, changes no other ticket, adds none and changes no
\* sequence counter; no other step of a call-next changes a ticket or a
\* counter.
C18_CallNextFrame ==
  [][\A r \in Reqs :
       /\ (kind[r] = "callnext" /\ pc[r] = "commit" /\ pc'[r] = "reread") =>
            LET h == loc[r].ticketId IN
              /\ tickets'[h].status = "serving"
              /\ tickets'[h].counter_id = body[r].counter_id
              /\ loc[r].now # NullTime
              /\ tickets'[h].called_at = loc[r].now
              /\ tickets'[h].started_at = loc[r].now
              /\ DOMAIN tickets' = DOMAIN tickets
              /\ \A t \in DOMAIN tickets : t # h => tickets'[t] = tickets[t]
              /\ seq' = seq
       /\ (kind'[r] = "callnext" /\ pc'[r] # pc[r]
             /\ ~(pc[r] = "commit" /\ pc'[r] = "reread")) =>
            (tickets' = tickets /\ seq' = seq)]_vars

\* C18 witness: a call-next of counter c2 has committed its ticket while
\* another ticket is still waiting.
C18_Witness ==
  \E r \in Reqs :
    /\ kind[r] = "callnext" /\ pc[r] = "reread"
    /\ body[r].counter_id = "c2"
    /\ tickets[loc[r].ticketId].status = "serving"
    /\ tickets[loc[r].ticketId].started_at = loc[r].now
    /\ \E u \in DOMAIN tickets : u # loc[r].ticketId /\ tickets[u].status = "waiting"

\* C19: the commit of a POST /tickets adds exactly one ticket: waiting, bound
\* to no counter, with the priority_level of the body (0 when the body has
\* none) and the service and branch of the body; it moves the counter of the
\* request's key from its committed value to that value plus 1 and leaves
\* every other ticket and every other counter as it was; no other step of the
\* request changes a ticket or a counter; and the 201 response carries the
\* ticket added.
C19_CreateFrame ==
  [][\A r \in Reqs :
       /\ (kind[r] = "create" /\ pc[r] = "commit" /\ pc'[r] = "reread") =>
            LET k == KeyOf(body[r])
                new == DOMAIN tickets' \ DOMAIN tickets
            IN /\ Cardinality(new) = 1
               /\ \A t \in new :
                    /\ tickets'[t].status = "waiting"
                    /\ tickets'[t].counter_id = NULL
                    /\ tickets'[t].priority_level =
                         (IF body[r].priority_level = <<>> THEN 0
                          ELSE body[r].priority_level[1])
                    /\ tickets'[t].service_id = body[r].service_id
                    /\ tickets'[t].branch_id = body[r].branch_id
                    /\ loc'[r].ticketId = t
               /\ \A t \in DOMAIN tickets : tickets'[t] = tickets[t]
               /\ seq'[k] = Committed(k) + 1
               /\ \A j \in Keys : j # k => seq'[j] = seq[j]
       /\ (kind'[r] = "create" /\ pc'[r] # pc[r]
             /\ ~(pc[r] = "commit" /\ pc'[r] = "reread")) =>
            (tickets' = tickets /\ seq' = seq)
       /\ (kind[r] = "create" /\ pc[r] = "reread" /\ pc'[r] = "done"
             /\ resp'[r].code = 201) =>
            /\ resp'[r].ticket # <<>>
            /\ resp'[r].ticket[1].id = loc[r].ticketId]_vars

\* C19 witness: a POST /tickets with priority_level 2 has committed its
\* ticket on a key that had one before, while another key has a ticket too.
C19_Witness ==
  \E r \in Reqs :
    /\ kind[r] = "create" /\ pc[r] = "reread"
    /\ body[r].priority_level = <<2>>
    /\ tickets[loc[r].ticketId].priority_level = 2
    /\ seq[KeyOf(body[r])] = 2
    /\ \E j \in Keys : j # KeyOf(body[r]) /\ seq[j] = 1

\* C20: no step lowers the committed counter of a key or removes its row;
\* the upsert leaves the row at its committed value, 0 when it creates it;
\* and the ticket committed first for a key has sequence number 1.
C20_CounterMonotone ==
  [][/\ \A k \in Keys :
          /\ Committed(k)' >= Committed(k)
          /\ seq[k] # NoRow => seq'[k] # NoRow
     /\ \A r \in Reqs :
          /\ (kind[r] = "create" /\ pc[r] = "upsert" /\ pc'[r] = "forupdate") =>
               loc'[r].seqWrite = Committed(KeyOf(body[r]))
          /\ (kind[r] = "create" /\ pc[r] = "commit" /\ pc'[r] = "reread"
                /\ TicketsOf(KeyOf(body[r])) = {}) =>
               /\ SeqOf(tickets'[loc'[r].ticketId].ticket_number) = 1
               /\ seq'[KeyOf(body[r])] = 1]_vars

\* C20 witness: a creation has run its upsert on a key whose counter stands
\* at 2, and the row kept that value; another key has no row yet.
C20_Witness ==
  \E r \in Reqs :
    /\ kind[r] = "create" /\ pc[r] = "forupdate"
    /\ seq[KeyOf(body[r])] = 2
    /\ loc[r].seqWrite = 2
    /\ \E j \in Keys : seq[j] = NoRow

\* C21: the ticket a creation commits has a sequence number above that of
\* every ticket already committed for its key, so of two creations on one key
\* the one that commits first has the smaller number.
C21_CommitOrderIsNumberOrder ==
  [][\A r \in Reqs :
       (kind[r] = "create" /\ pc[r] = "commit" /\ pc'[r] = "reread") =>
         \A t \in TicketsOf(KeyOf(body[r])) :
           SeqOf(tickets[t].ticket_number) <
             SeqOf(tickets'[loc'[r].ticketId].ticket_number)]_vars

\* C21 witness: of the only two requests of the behaviour, both creations on
\* one key of an empty table, the one accepted second has committed number 1
\* while the one accepted first has not yet run its upsert.
C21_Witness ==
  /\ started = 2
  /\ kind[1] = "create" /\ pc[1] = "upsert"
  /\ kind[2] = "create" /\ pc[2] = "reread"
  /\ KeyOf(body[1]) = KeyOf(body[2])
  /\ Cardinality(DOMAIN tickets) = 1
  /\ SeqOf(tickets[loc[2].ticketId].ticket_number) = 1

C23_WritesUnderLock ==
  [][/\ \A t \in DOMAIN tickets :
          (tickets[t].status = "waiting" /\ tickets'[t] # tickets[t]) =>
            \E r \in Reqs : ticketLock[t] = r /\ pc[r] = "commit" /\ pc'[r] = "reread"
     /\ \A k \in Keys :
          seq'[k] # seq[k] =>
            \E r \in Reqs : seqLock[k] = r /\ pc[r] = "commit" /\ pc'[r] = "reread"]_vars

\* C24: every step that takes a ticket from serving to done, cancelled or
\* skipped leaves it with ended_at set and served_by recorded.
C24_TerminalRecordsServer ==
  [][\A t \in DOMAIN tickets :
       (tickets[t].status = "serving" /\ tickets'[t].status \in Terminal) =>
         /\ tickets'[t].ended_at # NullTime
         /\ tickets'[t].served_by # NULL]_vars

\* C27: the ticket in the 200 response of a call-next for counter c, and in
\* the ticket:updated event it publishes, has status serving and
\* counter_id = c.
C27_ResponseIsServing ==
  [][\A r \in Reqs :
       (kind[r] = "callnext" /\ pc[r] = "reread" /\ pc'[r] = "done"
          /\ resp'[r].code = 200) =>
         /\ resp'[r].ticket[1].status = "serving"
         /\ resp'[r].ticket[1].counter_id = body[r].counter_id
         /\ emitted'[r][1].data.status = "serving"
         /\ emitted'[r][1].data.counter_id = body[r].counter_id]_vars

\* C29: every ticket whose status is serving is bound to a counter.
C29_ServingHasCounter ==
  \A t \in DOMAIN tickets :
    tickets[t].status = "serving" => tickets[t].counter_id # NULL

\* C26: there is no state in which the pool has no free connection and
\* every request that holds one is a POST /tickets waiting, after its commit,
\* for the connection its re-read needs.
C26_NoPoolDeadlock ==
  ~(/\ poolFree = 0
    /\ Holding # {}
    /\ \A r \in Holding : kind[r] = "create" /\ pc[r] = "reread")

\* ticket t comes before ticket u in the order of the queue
Ahead(t, u) ==
  \/ tickets[t].priority_level > tickets[u].priority_level
  \/ /\ tickets[t].priority_level = tickets[u].priority_level
     /\ tickets[t].created_at < tickets[u].created_at

\* C28: in the dispatch race on one pool, where the head of the queue is
\* selected under its row lock and so the ticket that comes first in the
\* queue is committed first, a call-next does not publish its ticket:called
\* while a call-next whose ticket came before its own in the queue has
\* committed and not yet published.
C28_CalledInCommitOrder ==
  [][\A r \in Reqs :
       (kind[r] = "callnext" /\ pc[r] = "reread" /\ pc'[r] = "done"
          /\ emitted'[r] # <<>>) =>
         ~\E q \in Reqs :
            /\ q # r
            /\ kind[q] = "callnext" /\ pc[q] = "reread"
            /\ Ahead(loc[q].ticketId, loc[r].ticketId)]_vars

\* the connected sockets that are members of room branch:b
Members(b) == {s \in Sockets : sockets[s] = "connected" /\ <<"branch", b>> \in rooms[s]}

\* C25: a socket receives a ticket event of branch b only in a step in which
\* it is connected and a member of room branch:b; a socket in other rooms
\* only, one that has left branch:b and one that has disconnected receive
\* nothing from the publication.
C25_RoomScopedDelivery ==
  [][\A s \in Sockets :
       \A e \in delivered'[s] \ delivered[s] :
         /\ sockets[s] = "connected"
         /\ s \in Members(e[3])]_vars

\* C25 witness: socket 1, in room branch:b1, has received an event of b1;
\* socket 2, connected, which joined b1 and b2 and left b1 before the
\* publication, has received nothing.
C25_Witness ==
  /\ \E e \in delivered[1] : e[3] = "b1"
  /\ sockets[2] = "connected"
  /\ rooms[2] = {<<"branch", "b2">>}
  /\ <<"string", "b1", 0>> \in DOMAIN connectedClients
  /\ delivered[2] = {}

\* C30: for every branch b, getConnectedClientsCount(b) is the number of
\* connected sockets that are members of room branch:b.
C30_RegistryMatchesRooms ==
  \A b \in BranchIds : getConnectedClientsCount(b) = Cardinality(Members(b))

====
